---- MODULE Spec2Model ----
(***************************************************************************)
(* Model of Jllama/generation.py: Llama.generate (the batched decode loop   *)
(* and the trimming of its results) and sample_top_p (nucleus sampling).    *)
(*                                                                          *)
(* Columns and positions are 0-based as in the source; TLA+ sequences are   *)
(* 1-based, so buffer column c of row r is tokens[r][c + 1].                *)
(* Probabilities are exact multiples of 1/Denom: a distribution is a        *)
(* function from token ids to integer weights that sum to Denom, and the    *)
(* threshold top_p is a number of such units.                               *)
(***************************************************************************)
EXTENDS Integers, Sequences, FiniteSets, TLC

VARIABLES
    max_seq_len, max_batch_size, model,
    prompt_tokens, max_gen_len, temperature, top_p, logprobs, echo,
    pc, min_prompt_len, total_len, tokens, token_logprobs, input_text_mask,
    eos_reached, prev_pos, cur_pos, out_tokens, out_logprobs,
    calls, written, run, first_tokens, first_logprobs,
    sp_pc, sp_probs, sp_p, sp_idx, sp_sort, sp_next

llamaVars == <<max_seq_len, max_batch_size, model>>
argVars == <<prompt_tokens, max_gen_len, temperature, top_p, logprobs, echo>>
loopVars == <<pc, min_prompt_len, total_len, tokens, token_logprobs,
              input_text_mask, eos_reached, prev_pos, cur_pos>>
outVars == <<out_tokens, out_logprobs>>
histVars == <<calls, written>>
runVars == <<run, first_tokens, first_logprobs>>
genVars == <<llamaVars, argVars, loopVars, outVars, histVars, runVars>>
spVars == <<sp_pc, sp_probs, sp_p, sp_idx, sp_sort, sp_next>>
vars == <<genVars, spVars>>

----------------------------------------------------------------------------
(* Bounds of the model and the tokenizer's ids.                             *)

\* number of ids of the vocabulary: ids are 0 .. VocabSize - 1
VocabSize == 4
\* one probability unit is 1/Denom
Denom == 4
\* longest prompt passed to generate
MaxPromptLen == 2
\* largest max_gen_len passed to generate
MaxGenLen == 2
\* largest max_seq_len the model is built with
MaxSeqLen == 4
\* number of deterministic models the Llama instance may hold
NumModels == 2

\* tokenizer.pad_id
PadId == 0
\* tokenizer.stop_tokens
StopTokens == {2, 3}

Vocab == 0 .. (VocabSize - 1)
\* ids that occur in the prompts passed to generate: the pad id, an ordinary
\* id and a stop id
PromptVocab == {PadId, 1, 2}
\* the (max_seq_len, max_batch_size) a Llama instance is built with
BatchSizes == {1, 2}
LlamaParams == {<<1, 2>>, <<MaxSeqLen - 1, 2>>, <<MaxSeqLen, 1>>, <<MaxSeqLen, 2>>}
\* top_p values passed to generate, in units of 1/Denom
TopPs == {1, Denom}
\* (temperature, top_p) passed to a first call of generate: greedy decoding,
\* and sampling (temperature 1) with each top_p
Samplings == {<<0, Denom>>} \cup {<<1, tp>> : tp \in TopPs}

----------------------------------------------------------------------------
(* Python list helpers.                                                     *)

Min(a, b) == IF a <= b THEN a ELSE b
Max(a, b) == IF a >= b THEN a ELSE b

\* s[lo:hi] of a Python list, 0-based, hi exclusive, both clipped to len(s)
Slice(s, lo, hi) ==
    LET h == Min(hi, Len(s))
    IN  IF lo >= h THEN <<>> ELSE SubSeq(s, lo + 1, h)

\* s.index(x) for x in s: the 0-based position of the first occurrence
Index(s, x) == (CHOOSE i \in 1 .. Len(s) : s[i] = x /\ \A j \in 1 .. (i - 1) : s[j] # x) - 1

Contains(s, x) == \E i \in 1 .. Len(s) : s[i] = x

IsPrefix(s, t) == Len(s) <= Len(t) /\ \A i \in 1 .. Len(s) : s[i] = t[i]

\* all sequences over S of length 0 .. n
SeqsUpTo(S, n) == UNION {[1 .. k -> S] : k \in 0 .. n}

\* all orders in which the members of the set S can be listed
Orders(S) == {f \in [1 .. Cardinality(S) -> S] : \A i, j \in 1 .. Cardinality(S) : i # j => f[i] # f[j]}

\* the prompts and the batches passed to generate: up to one row more than
\* the smallest max_batch_size
Prompts == SeqsUpTo(PromptVocab, MaxPromptLen)
Batches == SeqsUpTo(Prompts, Cardinality(BatchSizes))

\* Optional[...] values
None == [none |-> TRUE, v |-> <<>>]
Some(x) == [none |-> FALSE, v |-> x]

----------------------------------------------------------------------------
(* sample_top_p                                                             *)

\* all distributions over the vocabulary: weights that sum to Denom
RECURSIVE SumTo(_, _)
SumTo(f, n) == IF n < 0 THEN 0 ELSE f[n] + SumTo(f, n - 1)
Distributions == {f \in [Vocab -> 0 .. Denom] : SumTo(f, VocabSize - 1) = Denom}

\* jt.sort(probs, descending=True): probs_idx is any order of the ids that
\* lists the probabilities in non-increasing order (equal entries in any order)
VocabOrders == Orders(Vocab)
SortOrders(probs) ==
    {idx \in VocabOrders : \A j \in 1 .. (VocabSize - 1) : probs[idx[j]] >= probs[idx[j + 1]]}

Sorted(probs, idx) == [j \in 1 .. VocabSize |-> probs[idx[j]]]

\* jt.cumsum(probs_sort)[j]
RECURSIVE CumSum(_, _)
CumSum(s, j) == IF j = 0 THEN 0 ELSE s[j] + CumSum(s, j - 1)

\* the mask with >= for >: an entry is dropped as soon as the entries before
\* it reach p
TopPMaskGeq(probs_sort, p, j) == CumSum(probs_sort, j) - probs_sort[j] >= p

\* the mask taken on the cumulative sum itself, the entry's own share not
\* subtracted, and with >=
TopPMaskCum(probs_sort, p, j) == CumSum(probs_sort, j) >= p

\* mask = probs_sum - probs_sort > p, at sorted position j
TopPMask(probs_sort, p, j) == CumSum(probs_sort, j) - probs_sort[j] > p

\* probs_sort[mask] = 0.0
Truncate(probs_sort, p) ==
    [j \in 1 .. Len(probs_sort) |-> IF TopPMask(probs_sort, p, j) THEN 0 ELSE probs_sort[j]]

\* a draw that ignores the weights: any position
MultinomialAny(w) == 1 .. Len(w)

\* jt.multinomial(probs_sort, num_samples=1): any position of nonzero weight
Multinomial(w) == {j \in 1 .. Len(w) : w[j] > 0}

\* the ids sample_top_p(probs, p) can return
SampleTopP(probs, p) ==
    UNION {{idx[j] : j \in Multinomial(Truncate(Sorted(probs, idx), p))} : idx \in SortOrders(probs)}

----------------------------------------------------------------------------
(* The model collaborator (Transformer.execute) and the scores read from    *)
(* its logits.                                                              *)

Models == 0 .. (NumModels - 1)

\* weight of the id ranked k-th (0-based) by a model's output
BaseWeight(k) == IF k = 0 THEN Denom - 1 ELSE IF k = 1 THEN 1 ELSE 0

\* softmax of the logits a model m returns for position pos of a row whose
\* token at position pos - 1 is tok: a deterministic function of the model,
\* the token and the position
Logits(m, tok, pos) ==
    [v \in Vocab |-> BaseWeight((v + 2 * VocabSize - ((m + tok + pos) % VocabSize)) % VocabSize)]

\* jt.argmax(logits[:, -1], dim=-1)
Argmax(dist) == CHOOSE v \in Vocab : \A u \in Vocab : dist[u] <= dist[v]

\* sample_top_p on the outputs of the models, tabulated
ModelOutputs == {Logits(m, tok, pos) : m \in Models, tok \in Vocab, pos \in 0 .. VocabSize}
SampleTopPOf == [dist \in ModelOutputs, p \in 1 .. Denom |-> SampleTopP(dist, p)]

\* -cross_entropy(logits, target, ignore_index=pad_id) of one cell: 0 for an
\* ignored target, else the score of the target, coded by its weight (the
\* logarithm is increasing and log 1 = 0)
CrossEntropy(dist, target) == IF target = PadId THEN 0 ELSE dist[target] - Denom

----------------------------------------------------------------------------
(* Llama.generate                                                           *)

Rows == 1 .. Len(prompt_tokens)

RECURSIVE MinLen(_, _)
MinLen(p, n) == IF n = 1 THEN Len(p[1]) ELSE Min(Len(p[n]), MinLen(p, n - 1))
RECURSIVE MaxLen(_, _)
MaxLen(p, n) == IF n = 1 THEN Len(p[1]) ELSE Max(Len(p[n]), MaxLen(p, n - 1))

\* the checks of lines 117-122 pass: the asserts hold and min() has a value
Accepted(p) ==
    /\ Len(p) <= max_batch_size
    /\ Len(p) > 0
    /\ MaxLen(p, Len(p)) <= max_seq_len

\* total_len = min(params.max_seq_len, max_gen_len + max_prompt_len)
TotalLen(p, mgl) == Min(max_seq_len, mgl + MaxLen(p, Len(p)))

\* tokens = jt.full((bsz, total_len), pad_id); tokens[k, : len(t)] = t
InitTokens(p, mgl) ==
    [k \in 1 .. Len(p) |->
        [c \in 1 .. TotalLen(p, mgl) |-> IF c <= Len(p[k]) THEN p[k][c] ELSE PadId]]

\* the mask compared against -1, an id no cell of the buffer holds: every
\* cell counts as prompt text
InputTextMaskAll(toks) == [k \in 1 .. Len(toks) |-> [c \in 1 .. Len(toks[k]) |-> toks[k][c] # -1]]

\* input_text_mask = tokens != pad_id
InputTextMask(toks) == [k \in 1 .. Len(toks) |-> [c \in 1 .. Len(toks[k]) |-> toks[k][c] # PadId]]

\* lines 116-134 for the arguments given: the checks, then the buffers
GenerateBody(p, mgl, temp, tp, lp, ec) ==
    /\ prompt_tokens' = p
    /\ max_gen_len' = mgl
    /\ temperature' = temp
    /\ top_p' = tp
    /\ logprobs' = lp
    /\ echo' = ec
    /\ calls' = <<>>
    /\ written' = {}
    /\ out_tokens' = <<>>
    /\ out_logprobs' = <<>>
    /\ IF ~Accepted(p)
       THEN /\ pc' = "failed"
            /\ min_prompt_len' = 0
            /\ total_len' = 0
            /\ tokens' = <<>>
            /\ token_logprobs' = <<>>
            /\ input_text_mask' = <<>>
            /\ eos_reached' = <<>>
            /\ prev_pos' = 0
            /\ cur_pos' = 0
       ELSE /\ min_prompt_len' = MinLen(p, Len(p))
            /\ total_len' = TotalLen(p, mgl)
            /\ tokens' = InitTokens(p, mgl)
            /\ token_logprobs' =
                 IF lp THEN [k \in 1 .. Len(p) |-> [c \in 1 .. TotalLen(p, mgl) |-> 0]]
                 ELSE <<>>
            /\ prev_pos' = 0
            /\ eos_reached' = [k \in 1 .. Len(p) |-> FALSE]
            /\ input_text_mask' = InputTextMask(InitTokens(p, mgl))
            /\ cur_pos' = MinLen(p, Len(p))
            /\ pc' = IF MinLen(p, Len(p)) = TotalLen(p, mgl) THEN "prime"
                     ELSE IF MinLen(p, Len(p)) < TotalLen(p, mgl) THEN "loop"
                     ELSE "trim"

\* a call of generate
Generate ==
    /\ pc = "idle"
    /\ \E p \in Batches,
          mgl \in 0 .. MaxGenLen, sampling \in Samplings,
          lp \in BOOLEAN, ec \in BOOLEAN :
          GenerateBody(p, mgl, sampling[1], sampling[2], lp, ec)
    /\ UNCHANGED <<llamaVars, runVars, spVars>>

\* the priming pass with its result dropped: the logprob buffer keeps its zeros
PrimeSkip ==
    /\ pc = "prime"
    /\ calls' = Append(calls, [start |-> prev_pos, lo |-> 0, hi |-> total_len])
    /\ \/ pc' = "trim"
       \/ total_len = 0 /\ pc' = "failed"
    /\ UNCHANGED <<llamaVars, argVars, min_prompt_len, total_len, tokens, token_logprobs,
                   input_text_mask, eos_reached, prev_pos, cur_pos, outVars,
                   written, runVars, spVars>>

\* the priming pass run on the last column only, from its offset
PrimeLastColumn ==
    /\ pc = "prime"
    /\ calls' = Append(calls, [start |-> total_len - 1, lo |-> total_len - 1, hi |-> total_len])
    /\ \/ /\ pc' = "trim"
          /\ token_logprobs' =
               [k \in Rows |-> [c \in 1 .. total_len |->
                   CrossEntropy(Logits(model, tokens[k][c], c), tokens[k][c])]]
       \/ /\ total_len = 0
          /\ pc' = "failed"
          /\ UNCHANGED token_logprobs
    /\ UNCHANGED <<llamaVars, argVars, min_prompt_len, total_len, tokens,
                   input_text_mask, eos_reached, prev_pos, cur_pos, outVars,
                   written, runVars, spVars>>

\* lines 136-143: the single forward pass over the whole buffer. An empty
\* buffer is outside the model's contract: the pass may raise.
Prime ==
    /\ pc = "prime"
    /\ calls' = Append(calls, [start |-> prev_pos, lo |-> 0, hi |-> total_len])
    /\ \/ /\ pc' = "trim"
          /\ token_logprobs' =
               [k \in Rows |-> [c \in 1 .. total_len |->
                   CrossEntropy(Logits(model, tokens[k][c], c), tokens[k][c])]]
       \/ /\ total_len = 0
          /\ pc' = "failed"
          /\ UNCHANGED token_logprobs
    /\ UNCHANGED <<llamaVars, argVars, min_prompt_len, total_len, tokens,
                   input_text_mask, eos_reached, prev_pos, cur_pos, outVars,
                   written, runVars, spVars>>

\* the sampling branch taken whatever the temperature
CandidatesSample(k) == SampleTopPOf[Logits(model, tokens[k][cur_pos], cur_pos), top_p]

\* the token row k's sampling branch proposes at cur_pos (lines 147-152):
\* argmax for temperature 0, else a draw of sample_top_p, on the logits of
\* the last column of the span, cur_pos - 1
Candidates(k) ==
    IF temperature > 0
    THEN SampleTopPOf[Logits(model, tokens[k][cur_pos], cur_pos), top_p]
    ELSE {Argmax(Logits(model, tokens[k][cur_pos], cur_pos))}

\* the proposals for the whole batch, one id per row
CandidateRows ==
    LET C == [k \in Rows |-> Candidates(k)]
    IN  {cand \in [Rows -> Vocab] : \A k \in Rows : cand[k] \in C[k]}

\* lines 155-157: jt.where(input_text_mask[:, cur_pos], tokens[:, cur_pos], next_token)
ReplayPrompt(k, cand) ==
    IF input_text_mask[k][cur_pos + 1] THEN tokens[k][cur_pos + 1] ELSE cand

\* line 158: tokens[:, cur_pos] = next_token
WriteColumn(next_token) ==
    [k \in Rows |-> [tokens[k] EXCEPT ![cur_pos + 1] = next_token[k]]]

\* lines 159-165: the scores of columns prev_pos + 1 .. cur_pos, read from
\* the logits of the span against the buffer after the write
StepLogprobs(toks) ==
    [k \in Rows |-> [c \in 1 .. total_len |->
        IF prev_pos + 1 <= c - 1 /\ c - 1 <= cur_pos
        THEN CrossEntropy(Logits(model, toks[k][c - 1], c - 1), toks[k][c])
        ELSE token_logprobs[k][c]]]

\* line 166
StopMask(next_token) ==
    [k \in Rows |->
        eos_reached[k] \/ (~input_text_mask[k][cur_pos + 1] /\ next_token[k] \in StopTokens)]

\* the cursor left where it was: every call starts again from its old offset
StalePrevPos == prev_pos

\* line 167: prev_pos = cur_pos
AdvancePrevPos == cur_pos

\* any(eos_reached): the exit taken as soon as one row has stopped
AnyStopped(eos) == \E k \in 1 .. Len(eos) : eos[k]

\* all(eos_reached)
AllStopped(eos) == \A k \in 1 .. Len(eos) : eos[k]

\* one iteration of the loop of lines 145-169, and the loop's exit. The model
\* is called on the span [prev_pos, cur_pos); the logits of an empty span
\* (an empty prompt: prev_pos = cur_pos = 0) have no last position, and
\* logits[:, -1] raises.
DecodeStep ==
    /\ pc = "loop"
    /\ calls' = Append(calls, [start |-> prev_pos, lo |-> prev_pos, hi |-> cur_pos])
    /\ \/ /\ prev_pos < cur_pos
          /\ \E cand \in CandidateRows :
                  LET next_token == [k \in Rows |-> ReplayPrompt(k, cand[k])]
                  IN  /\ tokens' = WriteColumn(next_token)
                      /\ token_logprobs' =
                           IF logprobs THEN StepLogprobs(WriteColumn(next_token))
                           ELSE token_logprobs
                      /\ eos_reached' = StopMask(next_token)
                      /\ written' = written \cup
                           {<<k, cur_pos>> : k \in {j \in Rows : ~input_text_mask[j][cur_pos + 1]}}
                      /\ prev_pos' = AdvancePrevPos
                      /\ IF AllStopped(StopMask(next_token)) \/ cur_pos + 1 >= total_len
                         THEN pc' = "trim" /\ cur_pos' = cur_pos
                         ELSE pc' = "loop" /\ cur_pos' = cur_pos + 1
       \/ /\ prev_pos = cur_pos
          /\ pc' = "failed"
          /\ UNCHANGED <<tokens, token_logprobs, eos_reached, written, prev_pos, cur_pos>>
    /\ UNCHANGED <<llamaVars, argVars, min_prompt_len, total_len, input_text_mask,
                   outVars, runVars, spVars>>

\* the cut made for the first listed stop token that occurs, the others
\* not looked for
RECURSIVE CutAtFirstListed(_, _, _, _)
CutAtFirstListed(toks, probs, order, n) ==
    IF n > Len(order) THEN [toks |-> toks, probs |-> probs]
    ELSE IF Contains(toks, order[n])
         THEN [toks |-> Slice(toks, 0, Index(toks, order[n])),
               probs |-> IF logprobs THEN Some(Slice(probs.v, 0, Index(toks, order[n]))) ELSE None]
         ELSE CutAtFirstListed(toks, probs, order, n + 1)

\* the cut made on toks only: probs keeps the length of its slice
RECURSIVE CutTokensOnly(_, _, _, _)
CutTokensOnly(toks, probs, order, n) ==
    IF n > Len(order) THEN [toks |-> toks, probs |-> probs]
    ELSE IF Contains(toks, order[n])
         THEN CutTokensOnly(Slice(toks, 0, Index(toks, order[n])), probs, order, n + 1)
         ELSE CutTokensOnly(toks, probs, order, n + 1)

\* lines 181-187: cut toks (and probs) before the first occurrence of each
\* stop token, the stop tokens taken in the order the set lists them
RECURSIVE CutAtStops(_, _, _, _)
CutAtStops(toks, probs, order, n) ==
    IF n > Len(order) THEN [toks |-> toks, probs |-> probs]
    ELSE IF Contains(toks, order[n])
         THEN CutAtStops(Slice(toks, 0, Index(toks, order[n])),
                         IF logprobs THEN Some(Slice(probs.v, 0, Index(toks, order[n]))) ELSE None,
                         order, n + 1)
         ELSE CutAtStops(toks, probs, order, n + 1)

\* the start taken from the batch's shortest prompt
StartMin(i) == IF echo THEN 0 ELSE min_prompt_len

\* line 175
Start(i) == IF echo THEN 0 ELSE Len(prompt_tokens[i])

\* the end offset taken from the batch's shortest prompt
TrimRowMinEnd(i, order) ==
    CutAtStops(Slice(tokens[i], Start(i), min_prompt_len + max_gen_len),
               IF logprobs
               THEN Some(Slice(token_logprobs[i], Start(i), min_prompt_len + max_gen_len))
               ELSE None,
               order, 1)

\* lines 175-187 for row i
TrimRow(i, order) ==
    CutAtStops(Slice(tokens[i], Start(i), Len(prompt_tokens[i]) + max_gen_len),
               IF logprobs
               THEN Some(Slice(token_logprobs[i], Start(i), Len(prompt_tokens[i]) + max_gen_len))
               ELSE None,
               order, 1)

\* the orders in which iterating tokenizer.stop_tokens can list its members
StopOrders == Orders(StopTokens)

\* lines 170-190
Trim ==
    /\ pc = "trim"
    /\ \E order \in StopOrders :
          /\ out_tokens' = [i \in Rows |-> TrimRow(i, order).toks]
          /\ out_logprobs' = [i \in Rows |-> TrimRow(i, order).probs]
    /\ pc' = "done"
    /\ UNCHANGED <<llamaVars, argVars, min_prompt_len, total_len, tokens, token_logprobs,
                   input_text_mask, eos_reached, prev_pos, cur_pos, histVars, runVars, spVars>>

\* the value generate returns (line 190)
Returned == [tokens |-> out_tokens, logprobs |-> IF logprobs THEN Some(out_logprobs) ELSE None]

\* a second call of generate by the same caller with the same prompts,
\* max_gen_len, temperature, logprobs and echo, and any top_p; the caller
\* keeps the tokens the first call returned
GenerateAgain ==
    /\ pc = "done"
    /\ run = 1
    /\ run' = 2
    /\ first_tokens' = out_tokens
    /\ first_logprobs' = out_logprobs
    /\ \E tp \in TopPs :
          GenerateBody(prompt_tokens, max_gen_len, temperature, tp, logprobs, echo)
    /\ UNCHANGED <<llamaVars, spVars>>

\* the loop of lines 145-167 carried on from the column after the one at
\* which all(eos_reached) broke it off (lines 168-169): the caller keeps what
\* the call returned; buffers, cursors and draws so far are those of the call
ResumeLoop ==
    /\ pc = "done"
    /\ run = 1
    /\ calls # <<>>
    /\ min_prompt_len < total_len
    /\ cur_pos + 1 < total_len
    /\ run' = 2
    /\ first_tokens' = out_tokens
    /\ first_logprobs' = out_logprobs
    /\ pc' = "noexit"
    /\ cur_pos' = cur_pos + 1
    /\ UNCHANGED <<llamaVars, argVars, min_prompt_len, total_len, tokens, token_logprobs,
                   input_text_mask, eos_reached, prev_pos, outVars, histVars, spVars>>

\* one iteration of the loop of lines 145-167 without the exit of lines
\* 168-169: the loop ends after the column total_len - 1
DecodeStepNoExit ==
    /\ pc = "noexit"
    /\ calls' = Append(calls, [start |-> prev_pos, lo |-> prev_pos, hi |-> cur_pos])
    /\ \E cand \in CandidateRows :
          LET next_token == [k \in Rows |-> ReplayPrompt(k, cand[k])]
          IN  /\ tokens' = WriteColumn(next_token)
              /\ token_logprobs' =
                   IF logprobs THEN StepLogprobs(WriteColumn(next_token))
                   ELSE token_logprobs
              /\ eos_reached' = StopMask(next_token)
              /\ written' = written \cup
                   {<<k, cur_pos>> : k \in {j \in Rows : ~input_text_mask[j][cur_pos + 1]}}
              /\ prev_pos' = AdvancePrevPos
              /\ IF cur_pos + 1 >= total_len
                 THEN pc' = "trim" /\ cur_pos' = cur_pos
                 ELSE pc' = "noexit" /\ cur_pos' = cur_pos + 1
    /\ UNCHANGED <<llamaVars, argVars, min_prompt_len, total_len, input_text_mask,
                   outVars, runVars, spVars>>

----------------------------------------------------------------------------
(* sample_top_p, step by step                                               *)

\* lines 321-322
SpSort ==
    /\ sp_pc = "sort"
    /\ \E idx \in SortOrders(sp_probs) :
          /\ sp_idx' = idx
          /\ sp_sort' = Sorted(sp_probs, idx)
    /\ sp_pc' = "truncate"
    /\ UNCHANGED <<genVars, sp_probs, sp_p, sp_next>>

\* lines 323-325: the quotient of line 325 is computed and dropped
SpTruncate ==
    /\ sp_pc = "truncate"
    /\ sp_sort' = Truncate(sp_sort, sp_p)
    /\ sp_pc' = "draw"
    /\ UNCHANGED <<genVars, sp_probs, sp_p, sp_idx, sp_next>>

\* lines 326-328
SpDraw ==
    /\ sp_pc = "draw"
    /\ \E j \in Multinomial(sp_sort) : sp_next' = sp_idx[j]
    /\ sp_pc' = "done"
    /\ UNCHANGED <<genVars, sp_probs, sp_p, sp_idx, sp_sort>>

----------------------------------------------------------------------------
(* Specifications                                                           *)

GenIdle ==
    /\ prompt_tokens = <<>>
    /\ max_gen_len = 0
    /\ temperature = 0
    /\ top_p = Denom
    /\ logprobs = FALSE
    /\ echo = FALSE
    /\ pc = "idle"
    /\ min_prompt_len = 0
    /\ total_len = 0
    /\ tokens = <<>>
    /\ token_logprobs = <<>>
    /\ input_text_mask = <<>>
    /\ eos_reached = <<>>
    /\ prev_pos = 0
    /\ cur_pos = 0
    /\ out_tokens = <<>>
    /\ out_logprobs = <<>>
    /\ calls = <<>>
    /\ written = {}
    /\ run = 1
    /\ first_tokens = <<>>
    /\ first_logprobs = <<>>

SpIdle ==
    /\ sp_pc = "idle"
    /\ sp_probs = [v \in Vocab |-> 0]
    /\ sp_p = Denom
    /\ sp_idx = <<>>
    /\ sp_sort = <<>>
    /\ sp_next = 0

\* a Llama instance after build
Init ==
    /\ \E params \in LlamaParams :
          /\ max_seq_len = params[1]
          /\ max_batch_size = params[2]
    /\ model \in Models
    /\ GenIdle
    /\ SpIdle

Next == Generate \/ Prime \/ DecodeStep \/ Trim

Spec == Init /\ [][Next]_vars

\* a call of generate that, once in its loop, runs the next iteration: the
\* loop is sequential code that nothing suspends
SpecLive == Init /\ [][Next]_vars /\ WF_vars(DecodeStep)

\* two calls of generate in a row on the largest Llama instance
InitTwice ==
    /\ max_seq_len = MaxSeqLen
    /\ max_batch_size = 2
    /\ model \in Models
    /\ GenIdle
    /\ SpIdle

NextTwice == Generate \/ Prime \/ DecodeStep \/ Trim \/ GenerateAgain

SpecTwice == InitTwice /\ [][NextTwice]_vars

\* a call of generate on the largest Llama instance, and the same loop
\* carried on without the all-stopped exit
NextNoExit == Generate \/ Prime \/ DecodeStep \/ Trim \/ ResumeLoop \/ DecodeStepNoExit

SpecNoExit == InitTwice /\ [][NextNoExit]_vars

\* one call of sample_top_p on any distribution and any threshold in (0, 1]
InitTopP ==
    /\ max_seq_len = MaxSeqLen
    /\ max_batch_size = 1
    /\ model = 0
    /\ GenIdle
    /\ sp_pc = "sort"
    /\ sp_probs \in Distributions
    /\ sp_p \in 1 .. Denom
    /\ sp_idx = <<>>
    /\ sp_sort = <<>>
    /\ sp_next = 0

NextTopP == SpSort \/ SpTruncate \/ SpDraw

SpecTopP == InitTopP /\ [][NextTopP]_vars

----------------------------------------------------------------------------
(* Properties of generate                                                   *)

Done == pc = "done"

PromptLen(i) == Len(prompt_tokens[i])

\* the slice of row i that trimming starts from (lines 175-176)
RowSlice(i) == Slice(tokens[i], Start(i), PromptLen(i) + max_gen_len)
RowProbSlice(i) == Slice(token_logprobs[i], Start(i), PromptLen(i) + max_gen_len)

\* the 0-based position of the first stop token of s, Len(s) if it has none
RECURSIVE FirstStop(_, _)
FirstStop(s, n) ==
    IF n > Len(s) THEN Len(s)
    ELSE IF s[n] \in StopTokens THEN n - 1 ELSE FirstStop(s, n + 1)

\* C1: with echo, every returned token sequence starts with the whole
\* prompt of its row, whatever the prompt holds.
C1_EchoPrefix ==
    (Done /\ echo) => \A i \in Rows : IsPrefix(prompt_tokens[i], out_tokens[i])

\* C2: every returned token sequence is the row's slice cut before the first
\* position that holds any stop token: a prefix of the slice that holds no
\* stop token, whatever the order the stop tokens are listed in; the
\* logprob slice is cut at the same position.
C2_CutAtFirstStop ==
    Done => \A i \in Rows :
        /\ out_tokens[i] = Slice(RowSlice(i), 0, FirstStop(RowSlice(i), 1))
        /\ IsPrefix(out_tokens[i], RowSlice(i))
        /\ \A n \in 1 .. Len(out_tokens[i]) : out_tokens[i][n] \notin StopTokens
        /\ logprobs => out_logprobs[i] = Some(Slice(RowProbSlice(i), 0, FirstStop(RowSlice(i), 1)))

\* a returned row whose slice held both stop tokens, with tokens left before
\* the first of them and at least two cells cut, and logprobs requested
C2_Witness ==
    /\ Done
    /\ logprobs
    /\ \E i \in Rows :
          /\ \A st \in StopTokens : Contains(RowSlice(i), st)
          /\ Len(out_tokens[i]) > 0
          /\ Len(out_logprobs[i].v) = Len(out_tokens[i])
          /\ Len(out_tokens[i]) + 1 < Len(RowSlice(i))

\* the preconditions of generate
ValidCall ==
    /\ Len(prompt_tokens) >= 1
    /\ Len(prompt_tokens) <= max_batch_size
    /\ \A i \in Rows : PromptLen(i) >= 1 /\ PromptLen(i) <= max_seq_len

\* a call within the preconditions whose prompts hold no pad id
PlainCall == ValidCall /\ \A i \in Rows : ~Contains(prompt_tokens[i], PadId)

\* C3: a call that violates a precondition never gets as far as invoking
\* the model.
C3_RejectedBeforeModel ==
    (pc # "idle" /\ ~ValidCall) => calls = <<>>

\* C4: without echo, the returned sequence of row i is taken from the
\* columns from the row's own prompt length on, and is at most max_gen_len
\* long.
C4_FromOwnPromptEnd ==
    (Done /\ ~echo) => \A i \in Rows :
        /\ IsPrefix(out_tokens[i], Slice(tokens[i], PromptLen(i), total_len))
        /\ Len(out_tokens[i]) <= max_gen_len

\* a mixed-length batch whose longer row returns generated tokens
C4_Witness ==
    /\ Done
    /\ ~echo
    /\ \E i, j \in Rows :
          /\ PromptLen(i) > PromptLen(j)
          /\ PromptLen(j) = min_prompt_len
          /\ Len(out_tokens[i]) > 0
          /\ Len(out_tokens[j]) > 0

\* C5: the model is called with strictly increasing start positions on
\* spans that tile the buffer: the first on [0, min_prompt_len) at 0, each
\* later one on the single column after the previous span.
C5_SpansTile ==
    \A n \in 1 .. Len(calls) :
        /\ calls[n].start = calls[n].lo
        /\ n = 1 => (calls[n].lo = 0 /\ calls[n].hi = min_prompt_len)
        /\ n > 1 => /\ calls[n].start > calls[n - 1].start
                    /\ calls[n].lo = calls[n - 1].hi
                    /\ calls[n].hi = calls[n].lo + 1

\* three calls of the model in one call of generate
C5_Witness == Len(calls) >= 3 /\ pc = "done"

\* the columns of row i from its own prompt end on, and the 0-based position
\* of the first stop token among them (their number if there is none)
Generated(i) == Slice(tokens[i], PromptLen(i), total_len)
FirstGenStop(i) == FirstStop(Generated(i), 1)

\* C6 as stated, on calls within the preconditions: without echo, a row
\* whose first generated stop token is at generated position k returns k
\* tokens, and a row that generated no stop token returns max_gen_len tokens.
C6_AsStated ==
    (Done /\ ~echo /\ PlainCall) => \A i \in Rows :
        IF FirstGenStop(i) < Len(Generated(i))
        THEN Len(out_tokens[i]) = FirstGenStop(i)
        ELSE Len(out_tokens[i]) = max_gen_len

\* C6, amended: without echo, a row whose first generated stop token is at
\* generated position k < max_gen_len returns k tokens, and a row with no
\* stop token among its first max_gen_len generated positions returns
\* min(max_gen_len, total_len - len(prompt)) tokens.
C6_TrimLengths ==
    (Done /\ ~echo) => \A i \in Rows :
        IF FirstGenStop(i) < Len(Generated(i)) /\ FirstGenStop(i) < max_gen_len
        THEN Len(out_tokens[i]) = FirstGenStop(i)
        ELSE Len(out_tokens[i]) = Min(max_gen_len, total_len - PromptLen(i))

\* a batch in which a row with a longer prompt stops at generated position 1
\* and returns 1 token while another row has no stop token and returns
\* max_gen_len = 2 tokens
C6_Witness ==
    /\ Done
    /\ ~echo
    /\ max_gen_len = 2
    /\ \E i, j \in Rows :
          /\ PromptLen(i) > PromptLen(j)
          /\ FirstGenStop(i) = 1
          /\ Len(out_tokens[i]) = 1
          /\ FirstGenStop(j) = Len(Generated(j))
          /\ Len(out_tokens[j]) = 2

\* the call went through the single priming pass
Primed == min_prompt_len = total_len

C8_GreedyDeterministic ==
    (run = 2 /\ Done /\ temperature = 0) => out_tokens = first_tokens

\* a greedy second call, with another top_p than the first, that returned
\* two generated tokens for some row
C8_Witness ==
    /\ run = 2
    /\ Done
    /\ temperature = 0
    /\ top_p # Denom
    /\ ~echo
    /\ \E i \in Rows : Len(out_tokens[i]) >= 2

\* C9: without echo, every returned cell was written by a decode step with
\* the token the model chose.
C9_NoPadFiller ==
    (Done /\ ~echo) => \A i \in Rows : \A n \in 1 .. Len(out_tokens[i]) :
        <<i, PromptLen(i) + n - 1>> \in written

\* a call that passed the checks of lines 117-122 and built its buffers
Started == pc \in {"prime", "loop", "trim", "done"}

\* C13: in every state of a call the Input-Text Mask is false at every column
\* from the row's own prompt length on, and is what it was at construction:
\* true exactly at the prompt cells that hold another id than the pad id.
\* No decode step changes it, not even one that fills the column.
C13_MaskFixed ==
    Started => \A i \in Rows : \A c \in 0 .. (total_len - 1) :
        /\ c >= PromptLen(i) => ~input_text_mask[i][c + 1]
        /\ input_text_mask[i][c + 1] = (c < PromptLen(i) /\ prompt_tokens[i][c + 1] # PadId)

\* a finished call in which a decode step wrote a token other than the pad id
\* into a column past a row's prompt, the mask still false there, while the
\* mask of another row is true at the same column
C13_Witness ==
    /\ Done
    /\ \E i, j \in Rows : \E c \in 0 .. (total_len - 1) :
          /\ c >= PromptLen(i)
          /\ <<i, c>> \in written
          /\ tokens[i][c + 1] # PadId
          /\ ~input_text_mask[i][c + 1]
          /\ input_text_mask[j][c + 1]

\* C14: in every state of a call every cell of a row's prompt holds the
\* prompt's token.
C14_PromptKept ==
    Started => \A i \in Rows : \A c \in 0 .. (PromptLen(i) - 1) :
        tokens[i][c + 1] = prompt_tokens[i][c + 1]

\* the columns of row i from its prompt end on that a decode step has
\* processed
Processed(i) == {c \in PromptLen(i) .. Min(prev_pos, total_len - 1) : c >= min_prompt_len}

\* C15: in every state of the loop a row's stop mask is true exactly when
\* some processed column from the row's prompt end on holds a stop token.
C15_StopMaskExact ==
    Started => \A i \in Rows :
        eos_reached[i] <=> \E c \in Processed(i) : tokens[i][c + 1] \in StopTokens

\* the calls of the model made by the loop (the priming pass is not one)
LoopCalls == IF min_prompt_len < total_len THEN calls ELSE <<>>

\* the loop has run at least one iteration and has not raised
LoopRan == LoopCalls # <<>> /\ pc \in {"loop", "trim", "done"}

\* the positions visited are min_prompt_len, min_prompt_len + 1, ... in order;
\* the loop goes on only while some row has not stopped and a column is
\* left, and is left only with every row stopped or after column
\* total_len - 1; it calls the model at most total_len - min_prompt_len times
LoopExact ==
    /\ \A n \in 1 .. Len(LoopCalls) : LoopCalls[n].hi = min_prompt_len + n - 1
    /\ Len(LoopCalls) <= total_len - min_prompt_len
    /\ (LoopRan /\ pc = "loop") =>
          /\ \E k \in Rows : ~eos_reached[k]
          /\ cur_pos = min_prompt_len + Len(LoopCalls)
          /\ cur_pos <= total_len - 1
    /\ (LoopRan /\ pc # "loop") =>
          \/ \A k \in Rows : eos_reached[k]
          \/ LoopCalls[Len(LoopCalls)].hi = total_len - 1

\* C17: the loop visits the positions from min_prompt_len on in order, none
\* skipped or repeated, is left exactly after the first step that finds
\* every row stopped, or after the step at total_len - 1, makes at most
\* total_len - min_prompt_len model calls, and always terminates.
C17_LoopTerminates == [](LoopExact) /\ ((pc = "loop") ~> (pc # "loop"))

\* a call whose loop ran two steps and was left early, every row stopped,
\* with at least one column not visited
C17_Witness ==
    /\ Done
    /\ Len(LoopCalls) = 2
    /\ \A k \in Rows : eos_reached[k]
    /\ LoopCalls[2].hi < total_len - 1
    /\ Len(prompt_tokens) = 2

\* C18: when min_prompt_len = total_len the model is called exactly once, at
\* start position 0 over the whole buffer, the loop runs no step, and every
\* cell of the buffer keeps the prompt token it was initialized with.
C18_PrimedOneCall ==
    (Started /\ Primed) =>
        /\ pc = "prime" => calls = <<>>
        /\ pc # "prime" => calls = <<[start |-> 0, lo |-> 0, hi |-> total_len]>>
        /\ pc # "loop"
        /\ written = {}
        /\ \A i \in Rows : tokens[i] = prompt_tokens[i] /\ Len(tokens[i]) = total_len

\* a finished call on two prompts of two tokens with no room to generate
C18_Witness ==
    /\ Done
    /\ Primed
    /\ total_len = 2
    /\ Len(prompt_tokens) = 2
    /\ Len(calls) = 1

\* C16: the loop carried on without the all-stopped exit, with the draws the
\* call made up to its exit, returns the token and logprob sequences the
\* call returned.
C16_ExitIsOptimization ==
    (run = 2 /\ Done) => (out_tokens = first_tokens /\ out_logprobs = first_logprobs)

\* C20: with logprobs requested every row gets a logprob sequence exactly as
\* long as its token sequence, whatever echo, the prompt lengths,
\* max_gen_len and the places of the stop tokens are; without, the second
\* result is null.
C20_ParallelLogprobs ==
    Done =>
        /\ logprobs =>
              /\ ~Returned.logprobs.none
              /\ Len(Returned.logprobs.v) = Len(Returned.tokens)
              /\ \A i \in Rows :
                    /\ ~Returned.logprobs.v[i].none
                    /\ Len(Returned.logprobs.v[i].v) = Len(Returned.tokens[i])
        /\ ~logprobs => Returned.logprobs = None

\* a call with logprobs on two prompts of different lengths that returned
\* rows of different nonzero lengths, one of them cut at a stop token
C20_Witness ==
    /\ Done
    /\ logprobs
    /\ \E i, j \in Rows :
          /\ PromptLen(i) # PromptLen(j)
          /\ Len(out_tokens[i]) > Len(out_tokens[j])
          /\ Len(out_tokens[j]) > 0
          /\ Len(out_tokens[j]) < Len(RowSlice(j))
          /\ Len(out_logprobs[i].v) = Len(out_tokens[i])
          /\ Len(out_logprobs[j].v) = Len(out_tokens[j])

----------------------------------------------------------------------------
(* Properties of sample_top_p                                               *)

Truncated == sp_pc \in {"draw", "done"}

\* the sorted distribution before truncation, and its cumulative sums
SortedProbs == Sorted(sp_probs, sp_idx)
Cum(n) == CumSum(SortedProbs, n)

\* the sorted positions left nonzero
Kept == {j \in 1 .. VocabSize : sp_sort[j] > 0}

\* the length of the smallest prefix whose cumulative probability reaches p
ReachingPrefix == CHOOSE n \in 1 .. VocabSize : Cum(n) >= sp_p /\ \A m \in 1 .. (n - 1) : Cum(m) < sp_p

\* the length of the smallest prefix whose cumulative probability exceeds p,
\* the whole distribution if none does
ExceedingPrefix ==
    IF \E n \in 1 .. VocabSize : Cum(n) > sp_p
    THEN CHOOSE n \in 1 .. VocabSize : Cum(n) > sp_p /\ \A m \in 1 .. (n - 1) : Cum(m) <= sp_p
    ELSE VocabSize

\* C10 as stated: the entries left nonzero are the smallest prefix whose
\* cumulative probability reaches or exceeds p.
C10_AsStated == Truncated => Kept = 1 .. ReachingPrefix

\* C10, amended: the entries left nonzero are the nonzero entries of the
\* smallest prefix whose cumulative probability strictly exceeds p (of the
\* whole distribution when no prefix exceeds p).
C10_KeptPrefix ==
    Truncated => Kept = {j \in 1 .. ExceedingPrefix : SortedProbs[j] > 0}

\* a truncation in which a proper prefix has cumulative probability exactly
\* p and the next entry, nonzero, is kept
C10_Witness ==
    /\ sp_pc = "done"
    /\ \E n \in 1 .. (VocabSize - 1) :
          /\ Cum(n) = sp_p
          /\ SortedProbs[n + 1] > 0
          /\ n + 1 \in Kept

\* C11: the largest entry is never zeroed, so the kept set is never empty, and
\* the id returned is the original index of a kept entry: sample_top_p maps
\* the sorted position drawn back through probs_idx, and the probability of
\* the returned id is the nonzero entry left at that position.
C11_KeptDrawn ==
    Truncated =>
        /\ 1 \in Kept
        /\ sp_sort[1] = SortedProbs[1]
        /\ sp_pc = "done" =>
              \E j \in Kept : /\ sp_next = sp_idx[j]
                              /\ sp_probs[sp_next] = sp_sort[j]
                              /\ ~TopPMask(SortedProbs, sp_p, j)

\* a draw after a truncation that zeroed a nonzero entry, that returned an
\* entry other than the largest, whose id differs from its sorted position
C11_Witness ==
    /\ sp_pc = "done"
    /\ \E j \in 1 .. VocabSize : SortedProbs[j] > 0 /\ j \notin Kept
    /\ \E j \in Kept : j > 1 /\ sp_next = sp_idx[j] /\ sp_next # j - 1
    /\ sp_next # sp_idx[1]

\* C12: with p = 1 (Denom units) no entry is zeroed: every entry of the
\* sorted distribution is left as it was, the kept set is the whole support,
\* and the vector handed to the draw is the input distribution, sorted.
C12_NoTruncationAtOne ==
    (Truncated /\ sp_p = Denom) =>
        /\ sp_sort = SortedProbs
        /\ \A j \in 1 .. VocabSize : ~TopPMask(SortedProbs, sp_p, j)
        /\ Kept = {j \in 1 .. VocabSize : SortedProbs[j] > 0}
        /\ \A v \in Vocab : \E j \in 1 .. VocabSize : sp_idx[j] = v /\ sp_sort[j] = sp_probs[v]

\* a draw with p = 1 from a distribution with every entry nonzero that
\* returned the least probable id
C12_Witness ==
    /\ sp_pc = "done"
    /\ sp_p = Denom
    /\ \A v \in Vocab : sp_probs[v] > 0
    /\ Kept = 1 .. VocabSize
    /\ sp_next = sp_idx[VocabSize]

\* C19: the vector the token is drawn from sums to 1 (Denom units): the
\* entries left after the truncation have been divided by their sum.
C19_Renormalized ==
    Truncated => CumSum(sp_sort, VocabSize) = Denom

====
